---- MODULE Spec2Model ----
(***************************************************************************)
(* Solix2MQTT: the poll / cache / publish loop of src/src/app.ts.           *)
(*                                                                         *)
(* One process.  pc is the position of run() / fetchAndPublish(); every     *)
(* `await` of an external collaborator (persistence, api, publisher,        *)
(* sleep) is two steps: Call issues the operation (pending # "none") and    *)
(* the matching Ret* action resumes the code with the result or a throw.    *)
(* Times are milliseconds since the epoch as Date.getTime() reports them;   *)
(* token_expires_at is in seconds, as the cloud API reports it.             *)
(*                                                                         *)
(* src/ref/e1600.ts (class SolixE1600) is not used by app.ts; it is one     *)
(* record, e1600, with its own specification RefSpec, in which a caller     *)
(* constructs the instance and calls getSitehomepage() again and again.     *)
(***************************************************************************)
EXTENDS Integers, Sequences, FiniteSets, TLC

\* ---------------------------------------------------------------- bounds
MaxTime == 1500          \* the clock saturates here
MaxSites == 2            \* longest site_list the overview returns
MaxExpiry == 2           \* largest token_expires_at (seconds) handed out
MaxPoll == 2             \* largest config.pollInterval (seconds)

Delays == {0, 500}       \* time an awaited operation may take (ms)
Tokens == {"t1", "t2"}
SiteNames == {"Home", "Garage"}

None == [token |-> "none", token_expires_at |-> 0]
Credentials == [token : Tokens, token_expires_at : 1..MaxExpiry]
Sites == [site_id : {"id"}, site_name : SiteNames]
SiteLists == UNION {[1..n -> Sites] : n \in 0..MaxSites}
Configs == [username : BOOLEAN, password : BOOLEAN,
            mqttTopic : {"anker"}, pollInterval : 1..MaxPoll]

VARIABLES
  config,         \* getConfig(): username/password are "is present"
  pc,             \* position in run() / fetchAndPublish()
  pending,        \* the awaited operation in flight, or "none"
  now,            \* wall clock, ms
  persisted,      \* content of the login store (FilePersistence)
  loginData,      \* fetchAndPublish's local loginData
  retrieved,      \* what persistence.retrieve() resolved to in this cycle
  checkedAt,      \* the clock when isLoginValid read it in this cycle
  siteList,       \* siteHomepage.data?.site_list ?? []
  idx,            \* position of the for-of loop in siteList
  testIdx,        \* which of the five trailing getSiteDeviceParam calls
  start,          \* run's local start
  sleepInterval,  \* run's local sleepInterval
  failure,        \* where this cycle threw (the await, "withLogin" or
                  \* "param_data"), "none" if nothing threw
  calls,          \* operations issued in this cycle, in order
  pubs,           \* topics passed to publisher.publish in this cycle
  stored,         \* credentials passed to persistence.store in this cycle
  logs,           \* logger lines of this cycle
  prev,           \* how the previous cycle ended: "none" before the first
                  \* cycle, else "withLogin", "failed" (any other throw),
                  \* "notLoggedIn" or "published"
  e1600           \* the SolixE1600 instance of ref/e1600.ts and the
                  \* getSitehomepage() call running on it

vars == <<config, pc, pending, now, persisted, loginData, retrieved,
          checkedAt, siteList, idx,
          testIdx, start, sleepInterval, failure, calls, pubs, stored,
          logs, prev, e1600>>

\* What app.ts owns, apart from config.
appVars == <<pc, pending, now, persisted, loginData, retrieved, checkedAt,
             siteList, idx, testIdx, start, sleepInterval, failure, calls,
             pubs, stored, logs, prev>>

\* ------------------------------------------------------------ pure parts

isLoginValidSeconds(ld, t) == ld.token_expires_at > t

isLoginValidInclusive(ld, t) == ld.token_expires_at * 1000 >= t

isLoginValidNowSeconds(ld, t) == ld.token_expires_at * 1000 > t \div 1000

\* app.ts:11-13.  new Date(ms).getTime() is ms for every ms in range.
isLoginValid(ld, t) == ld.token_expires_at * 1000 > t

\* app.ts:44, 49, 57: the three template strings.
HomepageTopic(cfg) == cfg.mqttTopic \o "/site_homepage"

ScenInfoTopicById(cfg, site) == cfg.mqttTopic \o "/site/" \o site.site_id \o "/scenInfo"

ScenInfoTopic(cfg, site) == cfg.mqttTopic \o "/site/" \o site.site_name \o "/scenInfo"

ScheduleTopic(cfg, site) == cfg.mqttTopic \o "/site/" \o site.site_name \o "/schedule"

SleepIntervalNoElapsed(cfg, st, t) == cfg.pollInterval * 1000

\* app.ts:99-100.
SleepInterval(cfg, st, t) == cfg.pollInterval * 1000 - (t - st)

AfterLoginNoStore(data) == "session"

AfterLoginAlwaysStore(data) == "store"

\* app.ts:32-37: where fetchAndPublish goes with loginResponse.data ?? null.
AfterLogin(data) == IF data # None THEN "store" ELSE "session"

HasNextOffByOne(i, l) == i + 1 < Len(l)

\* app.ts:46: the for-of loop has a site after the i-th.
HasNext(i, l) == i < Len(l)

\* Startup validation of the required credentials.
ConfigValid(cfg) == cfg.username /\ cfg.password

\* FilePersistence.retrieve(): the last stored credential, or none.
PersistenceRetrieve(p) == p

\* FilePersistence.store(c): overwrites the stored credential.
PersistenceStore(p, c) == c

\* utils.sleep(ms): a timer; a negative delay fires at once.
SleepElapsed(ms) == IF ms > 0 THEN ms ELSE 0

\* app.ts:60-83: getSiteDeviceParam calls after the schedule publish.
NumTestCalls == 5

Min(a, b) == IF a < b THEN a ELSE b

\* The clock after an operation that took d ms.
Advance(t, d) == Min(t + d, MaxTime)

\* The result of apiSession.siteHomepage(): undefined, or a response.
Undefined == [defined |-> FALSE, site_list |-> <<>>]
Responses == [defined : {TRUE}, site_list : SiteLists]

\* e1600.ts:32-34 and the locals of getSitehomepage: no instance yet.
NoInstance ==
  [pc |-> "new", loginCredentials |-> None, apiSession |-> FALSE,
   sites |-> Undefined, calls |-> <<>>, seen |-> <<>>, outcome |-> "none"]

\* ---------------------------------------------------------------- Init

Init ==
  /\ e1600 = NoInstance
  /\ config \in Configs
  /\ pc = "start"
  /\ pending = "none"
  /\ now = 0
  /\ persisted \in {None} \cup {c \in Credentials : c.token = "t1"}
  /\ loginData = None
  /\ retrieved = None
  /\ checkedAt = 0
  /\ siteList = <<>>
  /\ idx = 0
  /\ testIdx = 0
  /\ start = 0
  /\ sleepInterval = 0
  /\ failure = "none"
  /\ calls = <<>>
  /\ pubs = <<>>
  /\ stored = <<>>
  /\ logs = <<>>
  /\ prev = "none"

\* -------------------------------------------------------------- helpers

\* The awaited operation at each await of the code.
OpAt(p) ==
  CASE p = "retrieve" -> "retrieve"
    [] p = "login" -> "login"
    [] p = "store" -> "store"
    [] p = "siteHomepage" -> "siteHomepage"
    [] p \in {"pubHome", "pubScen", "pubSched"} -> "publish"
    [] p = "scenInfo" -> "scenInfo"
    [] p \in {"param", "test"} -> "getSiteDeviceParam"
    [] p = "sleep" -> "sleep"

AwaitSites == {"retrieve", "login", "store", "siteHomepage", "pubHome",
               "scenInfo", "pubScen", "param", "pubSched", "test", "sleep"}

TopicAtSwapped(p) ==
  CASE p = "pubHome" -> HomepageTopic(config)
    [] p = "pubScen" -> ScheduleTopic(config, siteList[idx])
    [] p = "pubSched" -> ScenInfoTopic(config, siteList[idx])

\* The topic of the publish at each publish site.
TopicAt(p) ==
  CASE p = "pubHome" -> HomepageTopic(config)
    [] p = "pubScen" -> ScenInfoTopic(config, siteList[idx])
    [] p = "pubSched" -> ScheduleTopic(config, siteList[idx])

\* A rejected await or a thrown error: control goes to run's catch.
Throw(what) ==
  /\ pc' = "catch"
  /\ pending' = "none"
  /\ failure' = what

\* ------------------------------------------------------------- actions

StartupNoValidation ==
  /\ pc = "start"
  /\ pc' = "loop"
  /\ UNCHANGED <<e1600, config, retrieved, checkedAt, pending, now, persisted, loginData, siteList, idx,
                 testIdx, start, sleepInterval, failure, calls, pubs,
                 stored, logs, prev>>

\* app.ts:15-26 and 106-113: run() up to the loop; a rejection of run()
\* ends in process.exit(1).
Startup ==
  /\ pc = "start"
  /\ pc' = IF ConfigValid(config) THEN "loop" ELSE "exited"
  /\ UNCHANGED <<e1600, config, retrieved, checkedAt, pending, now, persisted, loginData, siteList, idx,
                 testIdx, start, sleepInterval, failure, calls, pubs,
                 stored, logs, prev>>

\* app.ts:92-95, 28: top of the loop and entry of fetchAndPublish.
LoopTop ==
  /\ pc = "loop"
  /\ start' = now
  /\ prev' = IF calls = <<>> THEN "none"
             ELSE IF failure = "withLogin" THEN "withLogin"
             ELSE IF failure # "none" THEN "failed"
             ELSE IF loginData = None THEN "notLoggedIn" ELSE "published"
  /\ pc' = "retrieve"
  /\ loginData' = None
  /\ retrieved' = None
  /\ checkedAt' = now
  /\ siteList' = <<>>
  /\ idx' = 0
  /\ testIdx' = 0
  /\ failure' = "none"
  /\ calls' = <<>>
  /\ pubs' = <<>>
  /\ stored' = <<>>
  /\ logs' = <<"Fetching data">>
  /\ UNCHANGED <<e1600, config, pending, now, persisted, sleepInterval>>

CallNoAwaitSleep ==
  /\ pc \in AwaitSites
  /\ pending = "none"
  /\ pending' = OpAt(pc)
  /\ pc' = IF pc = "sleep" THEN "loop" ELSE pc
  /\ calls' = Append(calls, OpAt(pc))
  /\ pubs' = IF OpAt(pc) = "publish" THEN Append(pubs, TopicAt(pc)) ELSE pubs
  /\ stored' = IF OpAt(pc) = "store" THEN Append(stored, loginData) ELSE stored
  /\ UNCHANGED <<e1600, config, retrieved, checkedAt, now, persisted, loginData, siteList, idx,
                 testIdx, start, sleepInterval, failure, logs, prev>>

\* Any await: the operation is issued and the code suspends.
Call ==
  /\ pc \in AwaitSites
  /\ pending = "none"
  /\ pending' = OpAt(pc)
  /\ calls' = Append(calls, OpAt(pc))
  /\ pubs' = IF OpAt(pc) = "publish" THEN Append(pubs, TopicAt(pc)) ELSE pubs
  /\ stored' = IF OpAt(pc) = "store" THEN Append(stored, loginData) ELSE stored
  /\ UNCHANGED <<e1600, config, retrieved, checkedAt, pc, now, persisted, loginData, siteList, idx,
                 testIdx, start, sleepInterval, failure, logs, prev>>

\* app.ts:29-30, 38-40: retrieve resolves; the expiry check picks the branch.
RetRetrieve ==
  /\ pc = "retrieve" /\ pending = "retrieve"
  /\ \E d \in Delays :
       /\ now' = Advance(now, d)
       /\ loginData' = PersistenceRetrieve(persisted)
       /\ retrieved' = loginData'
       /\ checkedAt' = now'
       /\ IF loginData' = None \/ ~isLoginValid(loginData', now')
          THEN pc' = "login" /\ logs' = logs
          ELSE pc' = "session" /\ logs' = Append(logs, "Using cached auth data")
  /\ pending' = "none"
  /\ UNCHANGED <<e1600, config, persisted, siteList, idx, testIdx, start,
                 sleepInterval, failure, calls, pubs, stored, prev>>

\* app.ts:31-37: login resolves (with or without data) or rejects.
RetLogin ==
  /\ pc = "login" /\ pending = "login"
  /\ \E d \in Delays :
       /\ now' = Advance(now, d)
       /\ \/ Throw("login") /\ UNCHANGED <<loginData, logs>>
          \/ \E data \in {None} \cup Credentials :
               /\ loginData' = data
               /\ logs' = IF data # None THEN logs
                          ELSE Append(logs, "Could not log in")
               /\ pc' = AfterLogin(data)
               /\ pending' = "none"
               /\ UNCHANGED failure
  /\ UNCHANGED <<e1600, config, retrieved, checkedAt, persisted, siteList, idx, testIdx, start,
                 sleepInterval, calls, pubs, stored, prev>>

\* app.ts:34: store resolves or rejects.
RetStore ==
  /\ pc = "store" /\ pending = "store"
  /\ \E d \in Delays :
       /\ now' = Advance(now, d)
       /\ \/ Throw("store") /\ UNCHANGED persisted
          \/ /\ persisted' = PersistenceStore(persisted, loginData)
             /\ pc' = "session"
             /\ pending' = "none"
             /\ UNCHANGED failure
  /\ UNCHANGED <<e1600, config, retrieved, checkedAt, loginData, siteList, idx, testIdx, start,
                 sleepInterval, calls, pubs, stored, logs, prev>>

\* app.ts:41, 87-89: no login data; fetchAndPublish returns normally.
NotLoggedIn ==
  /\ pc = "session"
  /\ loginData = None
  /\ logs' = Append(logs, "Not logged in")
  /\ pc' = "after"
  /\ UNCHANGED <<e1600, config, retrieved, checkedAt, pending, now, persisted, loginData, siteList, idx,
                 testIdx, start, sleepInterval, failure, calls, pubs,
                 stored, prev>>

\* app.ts:41-42: api.withLogin(loginData), synchronous; it may throw.
WithLogin ==
  /\ pc = "session"
  /\ loginData # None
  /\ calls' = Append(calls, "withLogin")
  /\ \/ Throw("withLogin")
     \/ pc' = "siteHomepage" /\ UNCHANGED <<pending, failure>>
  /\ UNCHANGED <<e1600, config, retrieved, checkedAt, now, persisted, loginData, siteList, idx, testIdx,
                 start, sleepInterval, pubs, stored, logs, prev>>

\* app.ts:43, 46: siteHomepage resolves (data may be undefined) or rejects.
RetSiteHomepage ==
  /\ pc = "siteHomepage" /\ pending = "siteHomepage"
  /\ \E d \in Delays :
       /\ now' = Advance(now, d)
       /\ \/ Throw("siteHomepage") /\ UNCHANGED siteList
          \/ \E l \in SiteLists :
               /\ siteList' = l
               /\ pc' = "pubHome"
               /\ pending' = "none"
               /\ UNCHANGED failure
  /\ UNCHANGED <<e1600, config, retrieved, checkedAt, persisted, loginData, idx, testIdx, start,
                 sleepInterval, calls, pubs, stored, logs, prev>>

RetPublishHomeSwallow ==
  /\ pc = "pubHome" /\ pending = "publish"
  /\ \E d \in Delays :
       /\ now' = Advance(now, d)
       /\ failure' \in {failure, "pubHome"}
       /\ idx' = IF HasNext(0, siteList) THEN 1 ELSE 0
       /\ pc' = IF HasNext(0, siteList) THEN "scenInfo" ELSE "published"
       /\ pending' = "none"
  /\ UNCHANGED <<e1600, config, retrieved, checkedAt, persisted, loginData, siteList, testIdx, start,
                 sleepInterval, calls, pubs, stored, logs, prev>>

\* app.ts:45-46: the overview publish resolves or rejects; the loop starts.
RetPublishHome ==
  /\ pc = "pubHome" /\ pending = "publish"
  /\ \E d \in Delays :
       /\ now' = Advance(now, d)
       /\ \/ Throw("pubHome") /\ UNCHANGED idx
          \/ /\ idx' = IF HasNext(0, siteList) THEN 1 ELSE 0
             /\ pc' = IF HasNext(0, siteList) THEN "scenInfo" ELSE "published"
             /\ pending' = "none"
             /\ UNCHANGED failure
  /\ UNCHANGED <<e1600, config, retrieved, checkedAt, persisted, loginData, siteList, testIdx, start,
                 sleepInterval, calls, pubs, stored, logs, prev>>

\* app.ts:48: scenInfo resolves or rejects.
RetScenInfo ==
  /\ pc = "scenInfo" /\ pending = "scenInfo"
  /\ \E d \in Delays :
       /\ now' = Advance(now, d)
       /\ \/ Throw("scenInfo")
          \/ pc' = "pubScen" /\ pending' = "none" /\ UNCHANGED failure
  /\ UNCHANGED <<e1600, config, retrieved, checkedAt, persisted, loginData, siteList, idx, testIdx, start,
                 sleepInterval, calls, pubs, stored, logs, prev>>

\* app.ts:50: the scenInfo publish resolves or rejects.
RetPublishScenInfo ==
  /\ pc = "pubScen" /\ pending = "publish"
  /\ \E d \in Delays :
       /\ now' = Advance(now, d)
       /\ \/ Throw("pubScen")
          \/ pc' = "param" /\ pending' = "none" /\ UNCHANGED failure
  /\ UNCHANGED <<e1600, config, retrieved, checkedAt, persisted, loginData, siteList, idx, testIdx, start,
                 sleepInterval, calls, pubs, stored, logs, prev>>

\* app.ts:52-56: getSiteDeviceParam resolves or rejects; reading
\* deviceParams.data.param_data throws when the response carries no data.
RetDeviceParam ==
  /\ pc = "param" /\ pending = "getSiteDeviceParam"
  /\ \E d \in Delays :
       /\ now' = Advance(now, d)
       /\ \/ Throw("param")
          \/ Throw("param_data")
          \/ pc' = "pubSched" /\ pending' = "none" /\ UNCHANGED failure
  /\ UNCHANGED <<e1600, config, retrieved, checkedAt, persisted, loginData, siteList, idx, testIdx, start,
                 sleepInterval, calls, pubs, stored, logs, prev>>

\* app.ts:58: the schedule publish resolves or rejects.
RetPublishSchedule ==
  /\ pc = "pubSched" /\ pending = "publish"
  /\ \E d \in Delays :
       /\ now' = Advance(now, d)
       /\ \/ Throw("pubSched") /\ UNCHANGED testIdx
          \/ /\ testIdx' = 1
             /\ pc' = "test"
             /\ pending' = "none"
             /\ UNCHANGED failure
  /\ UNCHANGED <<e1600, config, retrieved, checkedAt, persisted, loginData, siteList, idx, start,
                 sleepInterval, calls, pubs, stored, logs, prev>>

\* app.ts:60-85: each of the five further getSiteDeviceParam calls resolves
\* or rejects; after the fifth the for-of loop moves to the next site.
RetTestParam ==
  /\ pc = "test" /\ pending = "getSiteDeviceParam"
  /\ \E d \in Delays :
       /\ now' = Advance(now, d)
       /\ \/ Throw("test") /\ UNCHANGED <<idx, testIdx>>
          \/ /\ pending' = "none"
             /\ UNCHANGED failure
             /\ IF testIdx < NumTestCalls
                THEN pc' = "test" /\ testIdx' = testIdx + 1 /\ idx' = idx
                ELSE /\ testIdx' = 0
                     /\ IF HasNext(idx, siteList)
                        THEN pc' = "scenInfo" /\ idx' = idx + 1
                        ELSE pc' = "published" /\ idx' = idx
  /\ UNCHANGED <<e1600, config, retrieved, checkedAt, persisted, loginData, siteList, start,
                 sleepInterval, calls, pubs, stored, logs, prev>>

\* app.ts:86: the loop is over; fetchAndPublish returns.
Published ==
  /\ pc = "published"
  /\ logs' = Append(logs, "Published.")
  /\ pc' = "after"
  /\ UNCHANGED <<e1600, config, retrieved, checkedAt, pending, now, persisted, loginData, siteList, idx,
                 testIdx, start, sleepInterval, failure, calls, pubs,
                 stored, prev>>

CatchRethrow ==
  /\ pc = "catch"
  /\ pc' = "exited"
  /\ UNCHANGED <<e1600, config, retrieved, checkedAt, pending, now, persisted, loginData, siteList, idx,
                 testIdx, start, sleepInterval, failure, calls, pubs,
                 stored, logs, prev>>

CatchClearsCache ==
  /\ pc = "catch"
  /\ logs' = Append(logs, "Failed fetching or publishing printer data")
  /\ persisted' = None
  /\ pc' = "after"
  /\ UNCHANGED <<e1600, config, retrieved, checkedAt, pending, now, loginData, siteList, idx,
                 testIdx, start, sleepInterval, failure, calls, pubs,
                 stored, prev>>

CatchRetryNow ==
  /\ pc = "catch"
  /\ logs' = Append(logs, "Failed fetching or publishing printer data")
  /\ pc' = "loop"
  /\ UNCHANGED <<e1600, config, retrieved, checkedAt, pending, now, persisted, loginData, siteList, idx,
                 testIdx, start, sleepInterval, failure, calls, pubs,
                 stored, prev>>

\* app.ts:96-98: the loop's catch.
Catch ==
  /\ pc = "catch"
  /\ logs' = Append(logs, "Failed fetching or publishing printer data")
  /\ pc' = "after"
  /\ UNCHANGED <<e1600, config, retrieved, checkedAt, pending, now, persisted, loginData, siteList, idx,
                 testIdx, start, sleepInterval, failure, calls, pubs,
                 stored, prev>>

\* app.ts:99-101: the time left of the poll interval.
ComputeSleep ==
  /\ pc = "after"
  /\ sleepInterval' = SleepInterval(config, start, now)
  /\ logs' = Append(logs, "Sleeping")
  /\ pc' = "sleep"
  /\ UNCHANGED <<e1600, config, retrieved, checkedAt, pending, now, persisted, loginData, siteList, idx,
                 testIdx, start, failure, calls, pubs, stored, prev>>

\* app.ts:102-103: the timer fires; back to the top of the loop.
RetSleep ==
  /\ pc = "sleep" /\ pending = "sleep"
  /\ now' = Advance(now, SleepElapsed(sleepInterval))
  /\ pc' = "loop"
  /\ pending' = "none"
  /\ UNCHANGED <<e1600, config, retrieved, checkedAt, persisted, loginData, siteList, idx, testIdx, start,
                 sleepInterval, failure, calls, pubs, stored, logs, prev>>

Next ==
  \/ Startup
  \/ LoopTop
  \/ Call
  \/ RetRetrieve
  \/ RetLogin
  \/ RetStore
  \/ NotLoggedIn
  \/ WithLogin
  \/ RetSiteHomepage
  \/ RetPublishHome
  \/ RetScenInfo
  \/ RetPublishScenInfo
  \/ RetDeviceParam
  \/ RetPublishSchedule
  \/ RetTestParam
  \/ Published
  \/ Catch
  \/ ComputeSleep
  \/ RetSleep

Spec == Init /\ [][Next]_vars

\* The event loop runs every ready continuation, and every awaited
\* operation settles: no step that can be taken is postponed forever.
FairSpec == Spec /\ WF_vars(Next)

\* ------------------------------------------------- ref/e1600.ts actions

\* The result code of login() for bad credentials (e1600.ts:65).
BadCredentials == 100053

\* login() resolves to a code and, possibly, the credentials.
LoginResponses == [code : {0, BadCredentials}, data : {None} \cup Credentials]

\* An error leaves the running call: the promise of getSitehomepage rejects.
Reject(msg) == [e1600 EXCEPT !.pc = "idle", !.outcome = msg]

NeedsRetryNever(res) == FALSE

\* e1600.ts:147: typeof sites === 'undefined'.
NeedsRetry(res) == ~res.defined

\* e1600.ts:43-54: the constructor.
SolixE1600 ==
  /\ e1600.pc = "new"
  /\ e1600' = IF ~config.username
                THEN [e1600 EXCEPT !.pc = "dead", !.outcome = "No username provided"]
              ELSE IF ~config.password
                THEN [e1600 EXCEPT !.pc = "dead", !.outcome = "No password provided"]
              ELSE [e1600 EXCEPT !.pc = "idle"]
  /\ UNCHANGED <<config, appVars>>

\* e1600.ts:143-144, 61-63: getSitehomepage() is called and enters _init();
\* without credentials login() is issued.
getSitehomepage ==
  /\ e1600.pc = "idle"
  /\ e1600' = [e1600 EXCEPT
       !.sites = Undefined, !.seen = <<>>, !.outcome = "none",
       !.pc = IF e1600.loginCredentials = None THEN "login" ELSE "session",
       !.calls = IF e1600.loginCredentials = None THEN <<"login">> ELSE <<>>]
  /\ UNCHANGED <<config, appVars>>

\* e1600.ts:63-74: login() settles.
InitLogin ==
  /\ e1600.pc = "login"
  /\ \/ e1600' = Reject("rejected")
     \/ \E r \in LoginResponses :
          e1600' = IF r.code = BadCredentials
                     THEN Reject("bad credentials")
                   ELSE IF r.data = None
                     THEN Reject("Unable to retrieve auth_token during API login")
                   ELSE [e1600 EXCEPT !.loginCredentials = r.data, !.pc = "session"]
  /\ UNCHANGED <<config, appVars>>

\* e1600.ts:76-85, 145: the session is made if there is none (withLogin may
\* throw, which deletes the credentials); then siteHomepage() is issued.
InitSession ==
  /\ e1600.pc = "session"
  /\ \/ /\ ~e1600.apiSession
        /\ e1600' = [Reject("Login failed") EXCEPT
                       !.loginCredentials = None,
                       !.calls = Append(e1600.calls, "withLogin")]
     \/ e1600' = [e1600 EXCEPT
          !.apiSession = TRUE,
          !.pc = "first",
          !.calls = IF e1600.apiSession
                    THEN Append(e1600.calls, "siteHomepage")
                    ELSE e1600.calls \o <<"withLogin", "siteHomepage">>]
  /\ UNCHANGED <<config, appVars>>

\* e1600.ts:145-148, 156: the first siteHomepage() settles; an undefined
\* result starts the timer, any other is returned.
FirstSitehomepage ==
  /\ e1600.pc = "first"
  /\ \/ e1600' = Reject("rejected")
     \/ \E res \in {Undefined} \cup Responses :
          e1600' = IF NeedsRetry(res)
                     THEN [e1600 EXCEPT !.pc = "delay",
                             !.seen = Append(e1600.seen, res.defined),
                             !.calls = Append(e1600.calls, "setTimeout")]
                   ELSE IF ~res.defined
                     THEN [Reject("TypeError") EXCEPT
                             !.seen = Append(e1600.seen, res.defined)]
                   ELSE [e1600 EXCEPT !.pc = "idle", !.outcome = "returned",
                           !.sites = res,
                           !.seen = Append(e1600.seen, res.defined)]
  /\ UNCHANGED <<config, appVars>>

\* e1600.ts:148-149: the timer fires and siteHomepage() is issued again.
RetryDelay ==
  /\ e1600.pc = "delay"
  /\ e1600' = [e1600 EXCEPT !.pc = "second",
                 !.calls = Append(e1600.calls, "siteHomepage")]
  /\ UNCHANGED <<config, appVars>>

\* e1600.ts:149-156: the second siteHomepage() settles.
SecondSitehomepage ==
  /\ e1600.pc = "second"
  /\ \/ e1600' = Reject("rejected")
     \/ \E res \in {Undefined} \cup Responses :
          e1600' = IF ~res.defined
                     THEN [Reject("Unable to retrieve Sitehomepage") EXCEPT
                             !.seen = Append(e1600.seen, res.defined)]
                   ELSE [e1600 EXCEPT !.pc = "idle", !.outcome = "returned",
                           !.sites = res,
                           !.seen = Append(e1600.seen, res.defined)]
  /\ UNCHANGED <<config, appVars>>

RefInit ==
  /\ config \in {c \in Configs : c.pollInterval = 1}
  /\ \E c \in {None} \cup Credentials :
       e1600 = [NoInstance EXCEPT !.loginCredentials = c]
  /\ pc = "start"
  /\ pending = "none"
  /\ now = 0
  /\ persisted = None
  /\ loginData = None
  /\ retrieved = None
  /\ checkedAt = 0
  /\ siteList = <<>>
  /\ idx = 0
  /\ testIdx = 0
  /\ start = 0
  /\ sleepInterval = 0
  /\ failure = "none"
  /\ calls = <<>>
  /\ pubs = <<>>
  /\ stored = <<>>
  /\ logs = <<>>
  /\ prev = "none"

RefNext ==
  \/ SolixE1600
  \/ getSitehomepage
  \/ InitLogin
  \/ InitSession
  \/ FirstSitehomepage
  \/ RetryDelay
  \/ SecondSitehomepage

RefSpec == RefInit /\ [][RefNext]_vars

\* ------------------------------------------------------------- claims

Count(seq, x) == Cardinality({i \in 1..Len(seq) : seq[i] = x})
Range(seq) == {seq[i] : i \in 1..Len(seq)}

\* The cycle is past the expiry check of app.ts:30.
Checked == pc \notin {"start", "exited", "retrieve"} /\ calls # <<>>

\* retrieve() gave a credential whose expiry is strictly after the clock
\* the check read.
CachedUsable ==
  Checked /\ retrieved # None /\ retrieved.token_expires_at * 1000 > checkedAt

\* retrieve() gave no credential, or one whose expiry is not after the clock.
CachedUnusable ==
  Checked /\ (retrieved = None \/ retrieved.token_expires_at * 1000 <= checkedAt)

\* fetchAndPublish has returned or thrown.
CycleOver == pc \in {"catch", "after", "sleep", "loop"} /\ calls # <<>>

\* C1: a cycle whose retrieve() returns a credential with expiry strictly
\* after the current time never calls login().
C1_NoLoginWhenCached == CachedUsable => Count(calls, "login") = 0

C1_Witness ==
  /\ CachedUsable /\ pc = "after" /\ failure = "none"
  /\ Len(pubs) = 3 /\ Count(calls, "login") = 0

\* C2: a cycle whose retrieve() returns nothing or an expired credential
\* calls login() exactly once; when that login returns a credential, store()
\* is called exactly once, with that credential, before the session is made,
\* before any publish and before the cycle is over.
C2_LoginOnceThenStore ==
  CachedUnusable =>
    /\ Count(calls, "login") = (IF pc = "login" /\ pending = "none" THEN 0 ELSE 1)
    /\ Len(stored) <= 1
    /\ (pc # "login" /\ failure # "login" /\ loginData # None
          /\ ~(pc = "store" /\ pending = "none"))
         => /\ stored = <<loginData>>
            /\ Count(calls, "store") = 1
    /\ (Count(calls, "withLogin") > 0 \/ pubs # <<>>)
         => /\ stored = <<loginData>>
            /\ persisted = loginData

C2_Witness ==
  /\ CachedUnusable /\ retrieved # None /\ pc = "after" /\ failure = "none"
  /\ stored = <<loginData>> /\ loginData # retrieved /\ Len(pubs) = 3

\* C3: when api.withLogin fails, the cached credential is cleared, and the
\* next cycle finds the cache empty and calls login() again.
C3_CacheClearedOnSessionFailure ==
  /\ (CycleOver /\ failure = "withLogin") => persisted = None
  /\ (prev = "withLogin" /\ Checked /\ ~(pc = "login" /\ pending = "none"))
       => (retrieved = None /\ Count(calls, "login") = 1)

\* Both topics of the j-th site of the overview's list.
SiteTopics(j) == {ScenInfoTopic(config, siteList[j]), ScheduleTopic(config, siteList[j])}

\* C4: a failure collecting or publishing one site's scenario info or
\* schedule leaves that site's other item and both items of every other site
\* published in the same cycle.
C4_SiteItemsIsolated ==
  (CycleOver /\ failure \in {"scenInfo", "pubScen", "param", "param_data", "pubSched"}) =>
    /\ \A j \in 1..Len(siteList) : j # idx => SiteTopics(j) \subseteq Range(pubs)
    /\ failure \in {"scenInfo", "pubScen"} => ScheduleTopic(config, siteList[idx]) \in Range(pubs)
    /\ failure \in {"param", "param_data", "pubSched"} => ScenInfoTopic(config, siteList[idx]) \in Range(pubs)

\* C5: the duration passed to sleep() is never negative.
C5_SleepNotNegative == (pc = "sleep") => sleepInterval >= 0

\* C6: no failure inside a cycle ends the loop: once the loop has begun the
\* process never exits, every failure reaches the loop's catch, and after
\* every failure a further cycle starts.
C6_LoopSurvivesFailures ==
  /\ [][pc # "start" => pc' # "exited"]_vars
  /\ [][(failure' # failure /\ failure' # "none") => pc' = "catch"]_vars
  /\ (pc = "catch") ~> (pc = "retrieve" /\ pending = "retrieve")

C6_Witness == pc = "retrieve" /\ pending = "retrieve" /\ prev = "failed"

\* The publishes of a cycle over the sites l, in the order the claim fixes.
ExpectedPubs(cfg, l) ==
  [k \in 1..(1 + 2 * Len(l)) |->
     IF k = 1 THEN cfg.mqttTopic \o "/site_homepage"
     ELSE IF k % 2 = 0
          THEN cfg.mqttTopic \o "/site/" \o l[k \div 2].site_name \o "/scenInfo"
          ELSE cfg.mqttTopic \o "/site/" \o l[(k - 1) \div 2].site_name \o "/schedule"]

\* C7: the publishes of a cycle are the overview, then for each site in list
\* order its scenario info and its schedule; a publish is issued only when
\* no other operation is in flight.
C7_PublishOrder ==
  /\ [](/\ Len(pubs) <= 1 + 2 * Len(siteList)
        /\ pubs = SubSeq(ExpectedPubs(config, siteList), 1, Len(pubs)))
  /\ [][calls' # calls => pending = "none"]_vars

C7_Witness ==
  /\ Len(siteList) = 2 /\ siteList[1] # siteList[2]
  /\ Len(pubs) = 5 /\ pc = "after"

\* C8: when login() returns no credential, the cycle makes no session and
\* no publish and does not call store(), the persisted credential stays as
\* it was, and the next cycle calls login() again.
LoginGaveNothing ==
  /\ Count(calls, "login") = 1 /\ pc # "login"
  /\ failure = "none" /\ loginData = None

C8_LoginFailureAbortsCycle ==
  /\ LoginGaveNothing =>
       /\ Count(calls, "withLogin") = 0
       /\ Count(calls, "siteHomepage") = 0
       /\ pubs = <<>>
       /\ stored = <<>>
       /\ persisted = retrieved
  /\ (prev = "notLoggedIn" /\ Checked /\ ~(pc = "login" /\ pending = "none"))
       => Count(calls, "login") = 1

C8_Witness ==
  /\ prev = "notLoggedIn" /\ Count(calls, "login") = 1
  /\ retrieved # None /\ pc = "after"

\* C9: from an empty cache, with login succeeding and one site listed, the
\* first cycle makes one login(), one store() and the three publishes in
\* order and logs "Published."; a following cycle that finds the credential
\* unexpired makes no login() and no store() and the same publishes; a fully
\* successful cycle over N sites makes 1 + 2N publishes.
FullySuccessful == pc \in {"after", "sleep", "loop"} /\ failure = "none" /\ loginData # None

OneSitePubs ==
  <<config.mqttTopic \o "/site_homepage",
    config.mqttTopic \o "/site/" \o siteList[1].site_name \o "/scenInfo",
    config.mqttTopic \o "/site/" \o siteList[1].site_name \o "/schedule">>

C9_EndToEnd ==
  /\ (FullySuccessful /\ prev = "none" /\ retrieved = None /\ Len(siteList) = 1) =>
       /\ Count(calls, "login") = 1
       /\ Count(calls, "store") = 1
       /\ stored = <<loginData>>
       /\ pubs = OneSitePubs
       /\ Count(calls, "publish") = 3
       /\ "Published." \in Range(logs)
  /\ (FullySuccessful /\ prev = "published" /\ CachedUsable /\ Len(siteList) = 1) =>
       /\ Count(calls, "login") = 0
       /\ Count(calls, "store") = 0
       /\ pubs = OneSitePubs
       /\ Count(calls, "publish") = 3
       /\ "Published." \in Range(logs)
  /\ FullySuccessful =>
       /\ Len(pubs) = 1 + 2 * Len(siteList)
       /\ Count(calls, "publish") = 1 + 2 * Len(siteList)

C9_Witness ==
  /\ FullySuccessful /\ prev = "published" /\ CachedUsable
  /\ Len(siteList) = 1 /\ Count(calls, "login") = 0 /\ pubs = OneSitePubs

\* The state right after the expiry check, before anything else happens.
JustChecked == calls = <<"retrieve">> /\ pending = "none" /\ retrieved # None

\* C10: the usability check answers true exactly for a credential whose
\* expiry instant is strictly after now; expiry = now is not usable.
C10_UsableIffExpiryAfterNow ==
  JustChecked =>
    /\ retrieved.token_expires_at * 1000 > now => pc = "session"
    /\ retrieved.token_expires_at * 1000 <= now => pc = "login"

C10_Witness ==
  JustChecked /\ retrieved.token_expires_at * 1000 = now /\ pc = "login"

\* C11: every topic published to is the prefix, "/", and site_homepage or
\* site/<display name>/scenInfo or site/<display name>/schedule for a site of
\* the overview; prefix anker and site Home give the three topics of the spec.
AllowedTopics ==
  {config.mqttTopic \o "/" \o "site_homepage"}
    \cup {config.mqttTopic \o "/" \o "site/" \o siteList[j].site_name \o "/" \o item :
            j \in 1..Len(siteList), item \in {"scenInfo", "schedule"}}

C11_TopicConstruction ==
  /\ Range(pubs) \subseteq AllowedTopics
  /\ (FullySuccessful /\ config.mqttTopic = "anker" /\ Len(siteList) = 1
        /\ siteList[1].site_name = "Home")
       => pubs = <<"anker/site_homepage", "anker/site/Home/scenInfo",
                   "anker/site/Home/schedule">>

C11_Witness ==
  /\ FullySuccessful /\ Len(siteList) = 1 /\ siteList[1].site_name = "Home"
  /\ pubs[2] = "anker/site/Home/scenInfo"

\* C12: every cycle, also a failed or aborted one, has logged its
\* completion ("Published.", app.ts:86) when the scheduler sleeps.
C12_CompletionAlwaysLogged == (pc = "sleep") => "Published." \in Range(logs)

\* C13: a cycle starts only from the top of the loop, with nothing in
\* flight and, after the first, with the sleep of the cycle before it
\* finished; the operation in flight is the one the code is suspended at,
\* and none is issued while another is in flight.
C13_NoOverlap ==
  /\ [](pending # "none" => (pc \in AwaitSites /\ pending = OpAt(pc)))
  /\ [][(pc' = "retrieve" /\ pc # "retrieve") =>
          /\ pc = "loop" /\ pending = "none"
          /\ (calls = <<>> \/ calls[Len(calls)] = "sleep")]_vars
  /\ [][(pending' # pending /\ pending' # "none") => pending = "none"]_vars

C13_Witness == prev # "none" /\ pending = "publish" /\ Len(pubs) = 2

\* C14: when collecting or publishing the overview fails, the cycle makes
\* no scenario-info or schedule call and no per-site publish.
C14_OverviewFailureAborts ==
  (failure \in {"siteHomepage", "pubHome"}) =>
    /\ Count(calls, "scenInfo") = 0
    /\ Count(calls, "getSiteDeviceParam") = 0
    /\ Len(pubs) <= 1
    /\ pc \in {"catch", "after", "sleep", "loop"}

C14_Witness == failure = "pubHome" /\ Len(siteList) = 2 /\ pc = "sleep"

C17_SleepIsRemainder ==
  /\ []((pc = "sleep" /\ now - start <= config.pollInterval * 1000) =>
          sleepInterval = config.pollInterval * 1000 - now + start)
  /\ [][(pc = "loop" /\ pc' = "retrieve" /\ calls # <<>>
           /\ sleepInterval >= 0 /\ now < MaxTime) =>
          start' = start + config.pollInterval * 1000]_vars

C17_Witness ==
  pc = "sleep" /\ config.pollInterval = 1 /\ now - start = 500 /\ sleepInterval = 500

\* C18: a session made from the credential retrieve() gave, with no login()
\* in the cycle, is made from a credential whose expiry was strictly after
\* the clock at the check.
C18_CachedSessionIsUnexpired ==
  (Count(calls, "withLogin") > 0 /\ Count(calls, "login") = 0) =>
    /\ retrieved # None
    /\ loginData = retrieved
    /\ retrieved.token_expires_at * 1000 > checkedAt

C18_Witness ==
  /\ Count(calls, "withLogin") = 1 /\ Count(calls, "login") = 0
  /\ retrieved.token_expires_at * 1000 = checkedAt + 500

\* Where a collection or publish step of a cycle can fail.
CollectionFailures == {"siteHomepage", "pubHome", "scenInfo", "pubScen",
                       "param", "param_data", "pubSched", "test"}

\* C19: store() is called at most once per cycle, only after login() and
\* with the credential login() returned; the persisted credential changes
\* only when that store() completes; a cycle on a cached credential, and a
\* failing collection or publish step, write nothing.
C19_SingleWriter ==
  /\ [](/\ Len(stored) <= 1
        /\ stored # <<>> => (/\ Count(calls, "login") = 1
                             /\ stored[1] # None
                             /\ (failure # "login" => stored[1] = loginData))
        /\ CachedUsable => (stored = <<>> /\ persisted = retrieved)
        /\ (CycleOver /\ failure \in CollectionFailures) =>
             persisted = (IF stored = <<>> THEN retrieved ELSE stored[1]))
  /\ [][persisted' # persisted =>
          (pc = "store" /\ pending = "store" /\ persisted' = loginData)]_vars

C19_Witness ==
  /\ CycleOver /\ failure = "scenInfo" /\ stored # <<>>
  /\ persisted = stored[1] /\ persisted # retrieved

\* C20: between two cycles there is exactly one sleep, also after a failed
\* or aborted cycle, and a cycle has at most one sleep after it.
C20_CycleSleepAlternate ==
  /\ [](Count(calls, "sleep") <= 1)
  /\ [](Count(calls, "sleep") = 1 =>
          (pc \in {"sleep", "loop"} /\ calls[Len(calls)] = "sleep"))
  /\ [][(pc' = "retrieve" /\ pc # "retrieve" /\ prev' # "none") =>
          (Count(calls, "sleep") = 1 /\ pending = "none")]_vars
  /\ [][(pc # "loop" /\ pc' = "loop" /\ pc # "start") => pc = "sleep"]_vars

C20_Witness == prev = "failed" /\ pc = "retrieve" /\ start = 1000

\* The calls of the running (or last) getSitehomepage() from the first
\* siteHomepage() on.
OverviewCalls ==
  SubSeq(e1600.calls,
         Len(e1600.calls) - Cardinality({i \in 1..Len(e1600.calls) :
                                           e1600.calls[i] \in {"siteHomepage", "setTimeout"}}) + 1,
         Len(e1600.calls))

====
